---- MODULE Spec2Model ----
(***************************************************************************)
(* Model of the tracking task of user-in-the-box:                          *)
(*   UIB/envs/mobl_arms/tracking/TrackingEnv.py                            *)
(*       TrackingEnv, ProprioceptionAndVisual                              *)
(*   UIB/envs/mobl_arms/remote_driving/reward_functions.py                 *)
(*       RewardBonus                                                       *)
(*                                                                         *)
(* Numbers.  Lengths are fixed-point integers in units of 0.05 m, so the   *)
(* default target radius 0.05 is 1 and the limits -0.3, 0.3 are -6, 6.     *)
(* Rewards are in thousandths.  A float is a record [nan, v]: numpy's      *)
(* 0.0/0.0 is NaN, and NaN propagates through arithmetic and makes every   *)
(* comparison false.  Python's False in info["termination"] is the string  *)
(* "False".  Sequences are 1-based: Python's a[i] is a[i+1] here.          *)
(***************************************************************************)
EXTENDS Integers, Sequences, FiniteSets, TLC

\* ------------------------------------------------------------------ bounds
MaxEpisodeSteps == 3    \* kwargs max_episode_steps ranges over 1..MaxEpisodeSteps
RawMax == 1             \* the raw sum of sines takes the values 0..RawMax
Overrun == 1            \* step() calls modelled past the step limit
MaxCalls == 3           \* RewardBonus.get calls logged between two resets

\* ------------------------------------------------------- program constants
TargetLow == 0 - 6      \* target_limits_y[0], target_limits_z[0] = -0.3
TargetHigh == 6         \* target_limits_y[1], target_limits_z[1] = 0.3
TargetRadiusDefault == 1   \* target_radius default 0.05
MinFrequency == 10      \* min_frequency 0.1 Hz, in hundredths
MaxFrequency == 200     \* max_frequency 2 Hz, in hundredths
BufferMaxlen == 3       \* deque(maxlen=3)
BonusDefault == 8       \* RewardBonus bonus default

VARIABLES
  constructed,       \* "no" | "yes" | "failed": ProprioceptionAndVisual(**kwargs)
  max_episode_steps, \* self.max_episode_steps
  freq_curriculum,   \* self.freq_curriculum: [arity, value], value in percent
  target_radius,     \* self.target_radius
  steps,             \* self.steps
  visual_buffer,     \* self.visual_buffer, index 1 is the left end
  sin_y, sin_z,      \* self.sin_y, self.sin_z
  target_position,   \* self.target_position
  max_frequency_used,\* local max_frequency of the last generate_sine_wave call
  ret,               \* what the last call returned or raised
  episode,           \* history: step() calls and simulator failures since reset()
  frames_pushed,     \* history: frames pushed since the buffer was cleared
  frame_log,         \* history: the pixels of those frames, in push order
  generated,         \* history: the last result of generate_trajectory(), and
                     \* whether the raw sums it normalised were constant
  bonus_term,        \* a RewardBonus object: [bonus, onetime, active]
  bonus_log,         \* history: the get() calls since the last reset() of the term,
                     \* who made that reset() and whether it found the term spent
  sine_call          \* one generate_sine_wave() call: its inputs and its result

vars == <<constructed, max_episode_steps, freq_curriculum, target_radius, steps,
          visual_buffer, sin_y, sin_z, target_position, max_frequency_used, ret,
          episode, frames_pushed, frame_log, generated, bonus_term, bonus_log,
          sine_call>>

envVars == <<constructed, max_episode_steps, freq_curriculum, target_radius, steps,
             visual_buffer, sin_y, sin_z, target_position, max_frequency_used, ret,
             episode, frames_pushed, frame_log, generated>>

\* ------------------------------------------------------------------ floats
NaN == [nan |-> TRUE, v |-> 0]

Fl(i) == [nan |-> FALSE, v |-> i]

FAdd(a, b) == IF a.nan \/ b.nan THEN NaN ELSE Fl(a.v + b.v)

\* a <= b on floats: false when either side is NaN
FLe(a, b) == ~a.nan /\ ~b.nan /\ a.v <= b.v

RECURSIVE SeqMin(_)
SeqMin(s) == IF Len(s) = 1 THEN s[1]
             ELSE LET m == SeqMin(Tail(s)) IN IF s[1] < m THEN s[1] ELSE m

RECURSIVE SeqMax(_)
SeqMax(s) == IF Len(s) = 1 THEN s[1]
             ELSE LET m == SeqMax(Tail(s)) IN IF s[1] > m THEN s[1] ELSE m

\* floor of the square root
RECURSIVE ISqrtBetween(_, _, _)
ISqrtBetween(n, lo, hi) ==
  IF lo >= hi THEN lo
  ELSE LET mid == (lo + hi + 1) \div 2
       IN IF mid * mid <= n THEN ISqrtBetween(n, mid, hi)
          ELSE ISqrtBetween(n, lo, mid - 1)

ISqrt(n) == ISqrtBetween(n, 0, n)

\* np.exp(-k * 0.05) in thousandths, k >= 0, by repeated squaring from
\* exp(-0.05) = 0.951229; rounded up, as exp of a finite number is above 0
RECURSIVE ExpNeg(_)
ExpNeg(k) ==
  IF k = 0 THEN 1000
  ELSE IF k % 2 = 1 THEN (ExpNeg(k - 1) * 951229 + 999999) \div 1000000
  ELSE LET h == ExpNeg(k \div 2) IN (h * h + 999) \div 1000

\* ------------------------------------------------------------- input sets
\* the samples of the sum of sine components over t = arange(n) * dt, as the
\* random source of lines 124-125 makes them: the flat signal RawMax, RawMax, ...
\* and the sawtooth signals a, a+1, ... wrapping at RawMax
RawSignals(n) ==
  {[i \in 1..n |-> RawMax]} \cup
  {[i \in 1..n |-> (a + i - 1) % (RawMax + 1)] : a \in 0..RawMax}

\* every raw sum of n samples with values up to RawMax + 2
AllRawSignals(n) == [1..n -> 0..(RawMax + 2)]

\* the limits argument: generate_trajectory() passes target_limits_y and
\* target_limits_z (lines 113-114), both [-0.3, 0.3] (lines 36-37)
SineLimits == {<<TargetLow, TargetHigh>>}

\* freq_curriculum: the default is `lambda x: 1.0`, a callable of one argument;
\* a configured curriculum is a callable of no argument returning a percentage
DefaultCurriculum == [arity |-> 1, value |-> 100]

Curricula == {DefaultCurriculum, [arity |-> 0, value |-> 50]}

\* fingertip position relative to target_origin
FingerPos == {0} \X {TargetLow, TargetLow + 1} \X {TargetLow, TargetHigh}

\* self.effort_term.get(self), in thousandths
EffortVals == {0 - 1, 0}

\* a depth frame is one pixel
Pixels == {0, 1}

\* --------------------------------------------------------- TrackingEnv.py
\* generate_sine_wave() without the shift of line 128
generate_sine_wave_unshifted(limits, raw, cur) ==
  IF cur.arity # 0
  THEN [exc |-> "TypeError", sine |-> <<>>, max_frequency |-> 0]
  ELSE LET max_frequency ==
             MinFrequency + ((MaxFrequency - MinFrequency) * cur.value) \div 100
           mx == SeqMax(raw)
           sine == [i \in 1..Len(raw) |->
                      IF mx = 0 THEN NaN
                      ELSE Fl(limits[1] + ((limits[2] - limits[1]) * raw[i]) \div mx)]
       IN [exc |-> "none", sine |-> sine, max_frequency |-> max_frequency]

\* lines 116-132.  raw is the sum accumulated by the loop of lines 123-125.
generate_sine_wave(limits, raw, cur) ==
  IF cur.arity # 0
  THEN [exc |-> "TypeError", sine |-> <<>>, max_frequency |-> 0]
  ELSE LET max_frequency ==
             MinFrequency + ((MaxFrequency - MinFrequency) * cur.value) \div 100
           lo == SeqMin(raw)
           shifted == [i \in 1..Len(raw) |-> raw[i] - lo]
           mx == SeqMax(shifted)
           sine == [i \in 1..Len(raw) |->
                      IF mx = 0 THEN NaN
                      ELSE Fl(limits[1] + ((limits[2] - limits[1]) * shifted[i]) \div mx)]
       IN [exc |-> "none", sine |-> sine, max_frequency |-> max_frequency]

\* lines 111-114
generate_trajectory(rawy, rawz, cur) ==
  LET y == generate_sine_wave(<<TargetLow, TargetHigh>>, rawy, cur)
      z == generate_sine_wave(<<TargetLow, TargetHigh>>, rawz, cur)
  IN IF y.exc # "none" THEN [exc |-> y.exc, sin_y |-> <<>>, sin_z |-> <<>>,
                             max_frequency |-> 0]
     ELSE [exc |-> z.exc, sin_y |-> y.sine, sin_z |-> z.sine,
           max_frequency |-> z.max_frequency]

\* generate_trajectory() for every horizon n, curriculum and pair of raw sums,
\* evaluated once
generate_trajectory_table ==
  [n \in 1..MaxEpisodeSteps |->
     [cur \in Curricula |->
        [rawy \in RawSignals(n) |->
           [rawz \in RawSignals(n) |-> generate_trajectory(rawy, rawz, cur)]]]]

\* update_target_location() that sets only the x component
update_target_location_stale(tp, sy, sz, s) ==
  [exc |-> "none", target_position |-> <<Fl(0), tp[2], tp[3]>>,
   sin_y |-> sy, sin_z |-> sz]

\* update_target_location() that reads the sample before the counter
update_target_location_lagging(tp, sy, sz, s) ==
  IF s + 1 > Len(sy)
  THEN [exc |-> "IndexError", target_position |-> <<Fl(0), tp[2], tp[3]>>,
        sin_y |-> sy, sin_z |-> sz]
  ELSE LET i == IF s = 0 THEN 1 ELSE s
       IN [exc |-> "none", target_position |-> <<Fl(0), sy[i], sz[i]>>,
           sin_y |-> sy, sin_z |-> sz]

\* update_target_location() that blanks the sample it has read
update_target_location_consuming(tp, sy, sz, s) ==
  IF s + 1 > Len(sy)
  THEN [exc |-> "IndexError", target_position |-> <<Fl(0), tp[2], tp[3]>>,
        sin_y |-> sy, sin_z |-> sz]
  ELSE [exc |-> "none", target_position |-> <<Fl(0), sy[s + 1], sz[s + 1]>>,
        sin_y |-> [sy EXCEPT ![s + 1] = Fl(0)],
        sin_z |-> [sz EXCEPT ![s + 1] = Fl(0)]]

\* lines 134-139: self.sin_y[self.steps] raises IndexError past the last sample;
\* self.sin_y and self.sin_z are read, never written
update_target_location(tp, sy, sz, s) ==
  IF s + 1 > Len(sy)
  THEN [exc |-> "IndexError", target_position |-> <<Fl(0), tp[2], tp[3]>>,
        sin_y |-> sy, sin_z |-> sz]
  ELSE [exc |-> "none", target_position |-> <<Fl(0), sy[s + 1], sz[s + 1]>>,
        sin_y |-> sy, sin_z |-> sz]

\* a reset that leaves the deque as it is
visual_buffer_clear_keeps(buf) == buf

\* line 101: deque.clear()
visual_buffer_clear(buf) == <<>>

\* deque.popleft(): removes and returns the entry at the left end
visual_buffer_popleft(buf) == [buf |-> Tail(buf), item |-> buf[1]]

\* line 164: deque.pop() removes and returns the entry at the right end
visual_buffer_pop(buf) ==
  [buf |-> SubSeq(buf, 1, Len(buf) - 1), item |-> buf[Len(buf)]]

\* a refill that pushes the frame once and pads an empty buffer with blank frames
visual_buffer_refill_once(buf, frame) ==
  IF Len(buf) = 0 THEN <<frame, [px |-> 0, id |-> 0], [px |-> 0, id |-> 0]>>
  ELSE <<frame>> \o buf

\* lines 166-167: appendleft until the deque is full
RECURSIVE visual_buffer_refill(_, _)
visual_buffer_refill(buf, frame) ==
  IF Len(buf) < BufferMaxlen THEN visual_buffer_refill(<<frame>> \o buf, frame)
  ELSE buf

\* channels [0], [1], [1] - [0]
assemble_adjacent(buf) == <<buf[1].px, buf[2].px, buf[2].px - buf[1].px>>

\* lines 170-171: channels [0], [2], [2] - [0]
assemble(buf) == <<buf[1].px, buf[3].px, buf[3].px - buf[1].px>>

\* lines 156-173.  frame is the depth channel of super().get_observation();
\* pushed is its pixel, evicted the id of the frame removed by line 164 (0: none),
\* before the ids the buffer held when the request was made, sources the ids of
\* the frames at [0] and [2]
get_observation(buf, frame) ==
  LET popped == IF Len(buf) > 0 THEN visual_buffer_pop(buf).buf ELSE buf
      filled == visual_buffer_refill(popped, frame)
  IN [visual_buffer |-> filled,
      visual |-> assemble(filled),
      pushed |-> frame.px,
      sources |-> <<filled[1].id, filled[3].id>>,
      evicted |-> IF Len(buf) > 0 THEN visual_buffer_pop(buf).item.id ELSE 0,
      before |-> [i \in 1..Len(buf) |-> buf[i].id]]

\* line 70: np.linalg.norm(target_position - (finger_position - target_origin)),
\* in tenths of a length unit
Dist(tp, finger) ==
  IF tp[1].nan \/ tp[2].nan \/ tp[3].nan THEN NaN
  ELSE LET dx == tp[1].v - finger[1]
           dy == tp[2].v - finger[2]
           dz == tp[3].v - finger[3]
       IN Fl(ISqrt(100 * (dx * dx + dy * dy + dz * dz)))

\* line 73
InsideTarget(dist, radius) == FLe(dist, Fl(10 * radius))

\* line 79: np.exp(-(dist - self.target_radius) * 10) - 1
Shaping(dist, radius) ==
  IF dist.nan THEN NaN ELSE Fl(ExpNeg(dist.v - 10 * radius) - 1000)

\* line 83
TimeLimitReached(s, limit) == s >= limit

\* finished that only the step limit sets
Finished_by_limit_only(sim_ok, limit) == limit

\* lines 58, 63, 84: the value of finished at line 93
Finished(sim_ok, limit) == ~sim_ok \/ limit

\* lines 59, 64, 85: the value of info["termination"] at line 93
Termination(sim_ok, limit) ==
  IF limit THEN "time_limit_reached"
  ELSE IF sim_ok THEN "False" ELSE "MujocoException"

\* ---------------------------------------------------- reward_functions.py
\* lines 30-34
RewardBonus_init(bonus, onetime) ==
  [bonus |-> bonus, onetime |-> onetime, active |-> TRUE]

\* get() that spends the term whatever is_one_time says
RewardBonus_get_always_spends(self, get_bonus) ==
  IF get_bonus /\ self.active
  THEN [self |-> [self EXCEPT !.active = FALSE], ret |-> self.bonus]
  ELSE [self |-> self, ret |-> 0]

\* get() that leaves a one-time term active
RewardBonus_get_keeps_active(self, get_bonus) ==
  IF get_bonus /\ self.active THEN [self |-> self, ret |-> self.bonus]
  ELSE [self |-> self, ret |-> 0]

\* lines 36-42
RewardBonus_get(self, get_bonus) ==
  IF get_bonus /\ self.active
  THEN [self |-> IF self.onetime THEN [self EXCEPT !.active = FALSE] ELSE self,
        ret |-> self.bonus]
  ELSE [self |-> self, ret |-> 0]

\* reset() that leaves the flag as it is
RewardBonus_reset_noop(self) == self

\* lines 44-45
RewardBonus_reset(self) == [self EXCEPT !.active = TRUE]

\* ------------------------------------------------- code outside this source
\* FixedEye.reset(), reached by super().reset() at line 109: resets the reward
\* terms the controller owns and returns self.get_observation()
FixedEye_reset(term, buf, frame) ==
  [bonus_term |-> RewardBonus_reset(term), observation |-> get_observation(buf, frame)]

\* ----------------------------------------------------------------- results
\* the history of an episode: step() calls made, whether a simulator step has
\* failed, whether a step() call has returned is_terminated = true
NoEpisode == [calls |-> 0, failed |-> FALSE, terminated |-> FALSE]

\* prev is the episode history at the time of the call, info_keys the keys of
\* info, finger and target_used the operands of line 70, rendered_at the target
\* position when get_observation() was called, held the number of frames in the
\* buffer when reset() was called
NoRet ==
  [op |-> "none", exc |-> "none", finished |-> FALSE, termination |-> "False",
   inside_target |-> FALSE, has_info |-> FALSE, info_keys |-> {}, dist |-> Fl(0),
   shaping |-> Fl(0), reward |-> Fl(0), visual |-> <<>>, sources |-> <<>>,
   pushed |-> 0, evicted |-> 0, before |-> <<>>, held |-> 0, sim_failed |-> FALSE,
   sim_calls |-> 0, call_no |-> 0, prev |-> NoEpisode, finger |-> <<0, 0, 0>>,
   target_used |-> <<Fl(0), Fl(0), Fl(0)>>, rendered_at |-> <<Fl(0), Fl(0), Fl(0)>>]

\* before ProprioceptionAndVisual(**kwargs); the controller's reward term is
\* RewardBonus(bonus, onetime)
InitWith(bonus, onetime) ==
  /\ constructed = "no"
  /\ max_episode_steps = 0
  /\ freq_curriculum = DefaultCurriculum
  /\ target_radius = TargetRadiusDefault
  /\ steps = 0
  /\ visual_buffer = <<>>
  /\ sin_y = <<>>
  /\ sin_z = <<>>
  /\ target_position = <<Fl(0), Fl(0), Fl(0)>>
  /\ max_frequency_used = 0
  /\ ret = NoRet
  /\ episode = NoEpisode
  /\ frames_pushed = 0
  /\ frame_log = <<>>
  /\ generated = [sin_y |-> <<>>, sin_z |-> <<>>, flat_y |-> FALSE, flat_z |-> FALSE]
  /\ bonus_term = RewardBonus_init(bonus, onetime)
  /\ bonus_log = [calls |-> <<>>, reset_by |-> "none", was_spent |-> FALSE]

\* no generate_sine_wave() call on its own
NoSineCall ==
  [n |-> 0, limits |-> <<0, 0>>, raw |-> <<>>, cur |-> DefaultCurriculum,
   done |-> FALSE, out |-> [exc |-> "none", sine |-> <<>>, max_frequency |-> 0]]

\* the reward term built with its defaults, RewardBonus()
Init == InitWith(BonusDefault, FALSE) /\ sine_call = NoSineCall

\* generate_sine_wave(limits) about to be called on an object with
\* max_episode_steps = n and the curriculum cur, the random source about to
\* deliver the raw sum raw
InitSine ==
  /\ InitWith(BonusDefault, FALSE)
  /\ \E n \in 1..MaxEpisodeSteps, cur \in Curricula :
       \E limits \in SineLimits, raw \in AllRawSignals(n) :
         sine_call = [NoSineCall EXCEPT !.n = n, !.limits = limits, !.raw = raw,
                                        !.cur = cur]

\* the reward term built with either onetime flag
InitBonus == (\E o \in BOOLEAN : InitWith(BonusDefault, o)) /\ sine_call = NoSineCall

\* lines 95-109, for a curriculum cur and a horizon n; rawy, rawz and frame are
\* what the random source and the camera deliver during the call
ResetTo(op, cur, n, rawy, rawz, frame) ==
  LET traj == generate_trajectory_table[n][cur][rawy][rawz]
      utl == update_target_location(target_position, traj.sin_y, traj.sin_z, 0)
      \* frames already in the deque count as pushed before this reset: id 0
      old == [i \in 1..Len(visual_buffer) |-> [visual_buffer[i] EXCEPT !.id = 0]]
      cleared == visual_buffer_clear(old)
      sup == FixedEye_reset(bonus_term, cleared, [px |-> frame, id |-> 1])
  IN /\ steps' = 0
     /\ episode' = NoEpisode
     /\ IF traj.exc # "none"
        THEN /\ ret' = [NoRet EXCEPT !.op = op, !.exc = traj.exc, !.prev = episode]
             /\ visual_buffer' = cleared
             /\ frames_pushed' = 0
             /\ frame_log' = <<>>
             /\ UNCHANGED <<sin_y, sin_z, target_position, max_frequency_used,
                            generated, bonus_term, bonus_log>>
        ELSE /\ sin_y' = utl.sin_y
             /\ sin_z' = utl.sin_z
             /\ generated' = [sin_y |-> traj.sin_y, sin_z |-> traj.sin_z,
                              flat_y |-> SeqMin(rawy) = SeqMax(rawy),
                              flat_z |-> SeqMin(rawz) = SeqMax(rawz)]
             /\ max_frequency_used' = traj.max_frequency
             /\ target_position' = utl.target_position
             /\ IF utl.exc # "none"
                THEN /\ ret' = [NoRet EXCEPT !.op = op, !.exc = utl.exc,
                                             !.prev = episode]
                     /\ visual_buffer' = cleared
                     /\ frames_pushed' = 0
                     /\ frame_log' = <<>>
                     /\ UNCHANGED <<bonus_term, bonus_log>>
                ELSE /\ visual_buffer' = sup.observation.visual_buffer
                     /\ frames_pushed' = 1
                     /\ frame_log' = <<frame>>
                     /\ bonus_term' = sup.bonus_term
                     /\ bonus_log' = [calls |-> <<>>, reset_by |-> "controller",
                                      was_spent |-> ~bonus_term.active]
                     /\ ret' = [NoRet EXCEPT !.op = op, !.prev = episode,
                                             !.visual = sup.observation.visual,
                                             !.pushed = sup.observation.pushed,
                                             !.sources = sup.observation.sources,
                                             !.rendered_at = utl.target_position,
                                             !.held = Len(visual_buffer),
                                             !.evicted = sup.observation.evicted,
                                             !.before = sup.observation.before]

\* lines 95-109
reset ==
  /\ constructed = "yes"
  /\ \E rawy \in RawSignals(max_episode_steps), rawz \in RawSignals(max_episode_steps),
        frame \in Pixels :
       ResetTo("reset", freq_curriculum, max_episode_steps, rawy, rawz, frame)
  /\ UNCHANGED <<constructed, max_episode_steps, freq_curriculum, target_radius,
                 sine_call>>

\* lines 144-148 and 10-48: ProprioceptionAndVisual(**kwargs).  Line 48 generates
\* a first trajectory, which the reset() of line 148 replaces
ProprioceptionAndVisual_init ==
  /\ constructed = "no"
  /\ UNCHANGED sine_call
  /\ \E n \in 1..MaxEpisodeSteps, cur \in Curricula,
        radius \in {TargetRadiusDefault} :
       /\ max_episode_steps' = n
       /\ freq_curriculum' = cur
       /\ target_radius' = radius
       /\ LET raised == {generate_trajectory_table[n][cur][raw0y][raw0z].exc :
                           raw0y \in RawSignals(n), raw0z \in RawSignals(n)}
          IN \/ /\ raised # {"none"}
                /\ constructed' = "failed"
                /\ \E exc \in raised \ {"none"} :
                     ret' = [NoRet EXCEPT !.op = "init", !.exc = exc]
                /\ UNCHANGED <<steps, visual_buffer, sin_y, sin_z, target_position,
                               max_frequency_used, episode, frames_pushed,
                               frame_log, generated, bonus_term, bonus_log>>
             \/ /\ "none" \in raised
                /\ constructed' = "yes"
                /\ \E rawy \in RawSignals(n), rawz \in RawSignals(n),
                      frame \in Pixels :
                     ResetTo("init", cur, n, rawy, rawz, frame)

\* lines 51-93.  sim_ok: self.sim.step() returns (TRUE) or raises MujocoException;
\* finger, effort and frame are what the simulator, the effort term and the
\* camera deliver during the call
step ==
  /\ constructed = "yes"
  /\ steps < max_episode_steps + Overrun
  /\ \E sim_ok \in BOOLEAN, finger \in FingerPos, effort \in EffortVals,
        frame \in Pixels :
       \* line 70, evaluated once
       \E dist \in {Dist(target_position, finger)} :
       LET inside == InsideTarget(dist, target_radius)
           shaping == IF inside THEN Fl(0) ELSE Shaping(dist, target_radius)
           steps1 == steps + 1
           limit == TimeLimitReached(steps1, max_episode_steps)
           finished == Finished(sim_ok, limit)
           termination == Termination(sim_ok, limit)
           reward == FAdd(shaping, Fl(effort))
           utl == update_target_location(target_position, sin_y, sin_z, steps1)
           obs == get_observation(visual_buffer,
                                  [px |-> frame, id |-> frames_pushed + 1])
           locals == [NoRet EXCEPT !.op = "step", !.finished = finished,
                                   !.termination = termination,
                                   !.inside_target = inside, !.dist = dist,
                                   !.info_keys = {"termination", "inside_target"},
                                   !.finger = finger,
                                   !.target_used = target_position,
                                   !.shaping = shaping, !.reward = reward,
                                   !.prev = episode,
                                   !.sim_failed = ~sim_ok, !.sim_calls = 1,
                                   !.call_no = episode.calls + 1]
       IN /\ steps' = steps1
          /\ episode' = [calls |-> episode.calls + 1,
                         failed |-> episode.failed \/ ~sim_ok,
                         terminated |-> \/ episode.terminated
                                        \/ utl.exc = "none" /\ finished]
          /\ target_position' = utl.target_position
          /\ sin_y' = utl.sin_y
          /\ sin_z' = utl.sin_z
          /\ IF utl.exc # "none"
             THEN /\ ret' = [locals EXCEPT !.exc = utl.exc]
                  /\ UNCHANGED <<visual_buffer, frames_pushed, frame_log>>
             ELSE /\ visual_buffer' = obs.visual_buffer
                  /\ frames_pushed' = frames_pushed + 1
                  /\ frame_log' = Append(frame_log, frame)
                  /\ ret' = [locals EXCEPT !.has_info = TRUE,
                                           !.visual = obs.visual,
                                           !.pushed = obs.pushed,
                                           !.sources = obs.sources,
                                           !.rendered_at = utl.target_position,
                                           !.evicted = obs.evicted,
                                           !.before = obs.before]
  /\ UNCHANGED <<constructed, max_episode_steps, freq_curriculum, target_radius,
                 max_frequency_used, generated, bonus_term, bonus_log, sine_call>>

\* RewardBonus.get(get_bonus), lines 36-42
RewardBonus_get_call ==
  /\ Len(bonus_log.calls) < MaxCalls
  /\ \E get_bonus \in BOOLEAN :
       LET r == RewardBonus_get(bonus_term, get_bonus)
       IN /\ bonus_term' = r.self
          /\ bonus_log' = [bonus_log EXCEPT
                             !.calls = Append(@, [get_bonus |-> get_bonus,
                                                  ret |-> r.ret])]
  /\ UNCHANGED <<envVars, sine_call>>

\* RewardBonus.reset(), lines 44-45
RewardBonus_reset_call ==
  /\ bonus_term' = RewardBonus_reset(bonus_term)
  /\ bonus_log' = [calls |-> <<>>, reset_by |-> "term",
                   was_spent |-> ~bonus_term.active]
  /\ UNCHANGED <<envVars, sine_call>>

\* the environment driven by its caller
Next ==
  \/ ProprioceptionAndVisual_init
  \/ reset
  \/ step

Spec == Init /\ [][Next]_vars

\* the reward term driven by its caller and by the controller's reset()
NextBonus ==
  \/ ProprioceptionAndVisual_init
  \/ reset
  \/ RewardBonus_get_call
  \/ RewardBonus_reset_call

SpecBonus == InitBonus /\ [][NextBonus]_vars

\* lines 116-132 called once
generate_sine_wave_call ==
  /\ ~sine_call.done
  /\ sine_call' = [sine_call EXCEPT
                     !.done = TRUE,
                     !.out = generate_sine_wave(sine_call.limits, sine_call.raw,
                                                sine_call.cur)]
  /\ UNCHANGED <<envVars, bonus_term, bonus_log>>

\* generate_sine_wave() on its own
NextSine == generate_sine_wave_call

SpecSine == InitSine /\ [][NextSine]_vars

\* -------------------------------------------------------------- properties

\* C1: in an episode in which no simulator step has failed, the step() call
\* number max_episode_steps returns is_terminated = true with
\* info["termination"] = "time_limit_reached", and every earlier step() call
\* returns is_terminated = false with info["termination"] = False.
C1_TimeLimitOnLastStep ==
  (ret.op = "step" /\ ~episode.failed /\ ret.call_no <= max_episode_steps) =>
    /\ ret.exc = "none"
    /\ IF ret.call_no = max_episode_steps
       THEN ret.finished /\ ret.termination = "time_limit_reached"
       ELSE ~ret.finished /\ ret.termination = "False"

\* C2: a step() call whose simulator step fails returns is_terminated = true
\* with the simulation-failure reason in info["termination"], at whatever step
\* count, and makes one simulator step only.
C2_SimulationFailureSurfaced ==
  (ret.op = "step" /\ ret.sim_failed) =>
    /\ ret.exc = "none"
    /\ ret.finished
    /\ ret.termination = "MujocoException"
    /\ ret.sim_calls = 1

\* the i-th logged get() call is the first one with a true trigger
FirstTrigger(i) ==
  /\ bonus_log.calls[i].get_bonus
  /\ \A j \in 1..(i - 1) : ~bonus_log.calls[j].get_bonus

\* C3: for a one-time term, among the get() calls made since the last reset()
\* (or construction) the first get(true) returns bonus and every other call
\* returns 0; this holds again after every reset().
C3_OneTimeBonusOncePerEpisode ==
  bonus_term.onetime =>
    \A i \in 1..Len(bonus_log.calls) :
      bonus_log.calls[i].ret = IF FirstTrigger(i) THEN bonus_term.bonus ELSE 0

\* a spent one-time term was reset, then granted once and refused once
C3_Witness ==
  /\ bonus_term.onetime
  /\ bonus_log.was_spent
  /\ Len(bonus_log.calls) = 3
  /\ bonus_log.calls[1] = [get_bonus |-> FALSE, ret |-> 0]
  /\ bonus_log.calls[2] = [get_bonus |-> TRUE, ret |-> bonus_term.bonus]
  /\ bonus_log.calls[3] = [get_bonus |-> TRUE, ret |-> 0]

\* C4: reset(), from any state, leaves the step counter at 0, holds the
\* trajectory generated during that call, of max_episode_steps samples per
\* axis, and sets the target position to (0, sin_y[0], sin_z[0]).
C4_ResetState ==
  ret.op = "reset" =>
    /\ ret.exc = "none"
    /\ steps = 0
    /\ sin_y = generated.sin_y /\ sin_z = generated.sin_z
    /\ Len(sin_y) = max_episode_steps /\ Len(sin_z) = max_episode_steps
    /\ target_position = <<Fl(0), sin_y[1], sin_z[1]>>

\* reset() after an episode that ran to its step limit and had a simulator
\* failure, onto a trajectory that starts away from the old target
C4_Witness ==
  /\ ret.op = "reset"
  /\ ret.prev.calls >= max_episode_steps
  /\ ret.prev.failed
  /\ max_episode_steps >= 2
  /\ ~target_position[2].nan /\ target_position[2].v = TargetHigh
  /\ steps = 0

\* C5 as stated: on a request made while the buffer holds frames, the frame
\* evicted is the most recently pushed one.
C5_EvictsNewest ==
  (ret.exc = "none" /\ ret.evicted # 0) => ret.evicted = SeqMax(ret.before)

\* C5 amended: on a request made while the buffer holds frames, the frame
\* evicted is the least recently pushed one, the entry at the right end.
C5_EvictsOldest ==
  (ret.exc = "none" /\ ret.evicted # 0) =>
    /\ ret.evicted = SeqMin(ret.before)
    /\ ret.evicted = ret.before[Len(ret.before)]

\* a request on a buffer holding frames of two ages evicted the older one
C5_Witness ==
  /\ ret.op = "step" /\ ret.exc = "none"
  /\ ret.before = <<2, 1, 1>>
  /\ ret.evicted = 1

\* C6: a request on an empty buffer leaves all three slots equal to the pushed
\* frame; the composite is (frame, frame, 0).
C6_FirstObservation ==
  (ret.exc = "none" /\ ret.op \in {"init", "reset", "step"} /\ ret.before = <<>>) =>
    /\ Len(visual_buffer) = BufferMaxlen
    /\ \A i \in 1..Len(visual_buffer) : visual_buffer[i] = [px |-> ret.pushed, id |-> 1]
    /\ ret.visual = <<ret.pushed, ret.pushed, 0>>

\* the first observation after a reset() that followed steps, of a non-zero frame
C6_Witness ==
  /\ ret.op = "reset" /\ ret.exc = "none"
  /\ ret.prev.calls > 0
  /\ ret.before = <<>>
  /\ ret.pushed = 1
  /\ ret.visual = <<1, 1, 0>>

\* C7: in step(), inside_target is true exactly when the distance is <= the
\* target radius; the shaping reward is 0 inside and
\* exp(-(distance - target_radius) * 10) - 1, strictly negative, outside.
C7_InsideTargetShaping ==
  ret.op = "step" =>
    /\ ret.inside_target <=> (~ret.dist.nan /\ ret.dist.v <= 10 * target_radius)
    /\ ret.inside_target => ret.shaping = Fl(0)
    /\ ~ret.inside_target =>
         /\ ~ret.shaping.nan
         /\ ret.shaping.v = ExpNeg(ret.dist.v - 10 * target_radius) - 1000
         /\ ret.shaping.v < 0

\* C8: with no freq_curriculum configured, construction succeeds and
\* trajectories are generated with the configured max_frequency.
C8_DefaultCurriculum ==
  (ret.op = "init" /\ freq_curriculum = DefaultCurriculum) =>
    /\ ret.exc = "none"
    /\ constructed = "yes"
    /\ max_frequency_used = MaxFrequency

InLimits(x) == ~x.nan /\ TargetLow <= x.v /\ x.v <= TargetHigh

\* C9: a trajectory generated from a constant raw sum holds no NaN: every
\* sample is a value inside [low, high].
C9_FlatSignalFallback ==
  /\ generated.flat_y => \A i \in 1..Len(sin_y) : InLimits(sin_y[i])
  /\ generated.flat_z => \A i \in 1..Len(sin_z) : InLimits(sin_z[i])

C11_RepeatableBonus ==
  ~bonus_term.onetime =>
    /\ bonus_term.active
    /\ \A i \in 1..Len(bonus_log.calls) :
         bonus_log.calls[i].ret =
           IF bonus_log.calls[i].get_bonus THEN bonus_term.bonus ELSE 0

\* a repeatable term granted twice in a row, then refused a false trigger,
\* then granted again
C11_Witness ==
  /\ ~bonus_term.onetime
  /\ bonus_term.active
  /\ Len(bonus_log.calls) = 3
  /\ bonus_log.calls[1] = [get_bonus |-> TRUE, ret |-> bonus_term.bonus]
  /\ bonus_log.calls[2] = [get_bonus |-> FALSE, ret |-> 0]
  /\ bonus_log.calls[3] = [get_bonus |-> TRUE, ret |-> bonus_term.bonus]

\* C12: the info of every step() call that returns has the keys "termination"
\* and "inside_target"; is_terminated is true exactly when info["termination"]
\* is not False, and then it is the simulation-failure reason or
\* "time_limit_reached".
C12_InfoAndTermination ==
  (ret.op = "step" /\ ret.exc = "none") =>
    /\ {"termination", "inside_target"} \subseteq ret.info_keys
    /\ ret.finished <=> ret.termination # "False"
    /\ ret.termination \in {"False", "MujocoException", "time_limit_reached"}

\* a step() call before the limit whose simulator step failed has returned
C12_Witness ==
  /\ ret.op = "step" /\ ret.exc = "none"
  /\ ret.call_no < max_episode_steps
  /\ ret.sim_failed
  /\ ret.finished
  /\ ret.termination = "MujocoException"
  /\ ret.info_keys = {"termination", "inside_target"}

C14_TargetFollowsCounter ==
  (ret.op = "step" /\ ret.call_no <= max_episode_steps) =>
    /\ ret.exc = "none"
    /\ steps = ret.call_no
    /\ steps + 1 <= Len(sin_y) /\ steps + 1 <= Len(sin_z)
    /\ target_position = <<Fl(0), sin_y[steps + 1], sin_z[steps + 1]>>

\* C15: reset() empties the visual buffer: whatever it held, after a reset()
\* no slot holds a frame pushed before that reset() and no channel of an
\* observation is taken from one; the observation reset() returns is built from
\* the new frame alone.
C15_ResetEmptiesBuffer ==
  /\ \A i \in 1..Len(visual_buffer) : visual_buffer[i].id >= 1
  /\ \A k \in 1..Len(ret.sources) : ret.sources[k] >= 1
  /\ (ret.op = "reset" /\ ret.exc = "none") =>
       /\ ret.before = <<>>
       /\ visual_buffer = [i \in 1..BufferMaxlen |-> [px |-> ret.pushed, id |-> 1]]
       /\ ret.visual = <<ret.pushed, ret.pushed, 0>>

\* reset() on a full buffer that two step() calls had slid: it holds the new
\* frame three times
C15_Witness ==
  /\ ret.op = "reset" /\ ret.exc = "none"
  /\ ret.prev.calls >= 2
  /\ ret.held = BufferMaxlen
  /\ ret.before = <<>>
  /\ ret.pushed = 1
  /\ visual_buffer = [i \in 1..BufferMaxlen |-> [px |-> 1, id |-> 1]]

C17_TerminatedAbsorbing ==
  (ret.op = "step" /\ ret.exc = "none" /\ ret.prev.terminated) => ret.finished

\* C18: the n-th step() call of an episode, up to the step limit, computes the
\* distance, the inside_target flag and the shaping reward against the target
\* it finds, sample n-1 of the trajectory; a call that returns has then moved
\* the target to sample n and produced its observation with the target there.
C18_RewardBeforeAdvance ==
  (ret.op = "step" /\ ret.call_no <= max_episode_steps) =>
    LET n == ret.call_no
    IN /\ ret.target_used = <<Fl(0), sin_y[n], sin_z[n]>>
       /\ ret.dist = Dist(ret.target_used, ret.finger)
       /\ ret.inside_target = InsideTarget(ret.dist, target_radius)
       /\ ret.shaping = IF ret.inside_target THEN Fl(0)
                        ELSE Shaping(ret.dist, target_radius)
       /\ ret.exc = "none" =>
            /\ target_position = <<Fl(0), sin_y[n + 1], sin_z[n + 1]>>
            /\ ret.rendered_at = target_position

\* the second step() call found the target in the far corner and the fingertip
\* where the target is about to go: outside, and the target is there on return
C18_Witness ==
  /\ ret.op = "step" /\ ret.exc = "none"
  /\ ret.call_no = 2
  /\ ret.target_used = <<Fl(0), Fl(TargetHigh), Fl(TargetHigh)>>
  /\ ret.finger = <<0, TargetLow, TargetLow>>
  /\ ~ret.inside_target
  /\ target_position = <<Fl(0), Fl(TargetLow), Fl(TargetLow)>>
  /\ ret.rendered_at = target_position

\* C19: step() never changes the trajectory: after any number of step() calls
\* sin_y and sin_z are, sample for sample, what the last reset() (or the
\* construction) generated, max_episode_steps samples each.
C19_TrajectoryFrame ==
  constructed = "yes" =>
    /\ sin_y = generated.sin_y /\ sin_z = generated.sin_z
    /\ Len(sin_y) = max_episode_steps /\ Len(sin_z) = max_episode_steps

\* two step() calls into an episode on a trajectory that moves on both axes,
\* the second one having read its extreme sample
C19_Witness ==
  /\ ret.op = "step" /\ ret.exc = "none"
  /\ ret.call_no = 2
  /\ ~generated.flat_y /\ ~generated.flat_z
  /\ target_position = <<Fl(0), sin_y[3], sin_z[3]>>
  /\ sin_y[3] = Fl(TargetHigh)
  /\ sin_y = generated.sin_y /\ sin_z = generated.sin_z

====
